---------------------------- MODULE Spec2Model ----------------------------
(***************************************************************************)
(* Model of pschitt/emission.py: the transmission model, the family of     *)
(* emission profiles and mask_transmitted_particles.                       *)
(*                                                                         *)
(* Numbers.  A float is a record [num, den, en, ed] that stands for        *)
(*     (num / den) * e^(en / ed)                                           *)
(* so that the rational arithmetic of the profiles and the one call of     *)
(* np.exp are exact.  den = 0 holds the IEEE specials: 1/0 is +inf, -1/0   *)
(* is -inf and 0/0 is nan.  A numpy bool is the number 0 or 1, which is    *)
(* how numpy uses it in arithmetic.                                        *)
(***************************************************************************)
EXTENDS Integers, Sequences, FiniteSets, TLC

VARIABLES
    shower,       \* the caller's Shower: particles, alt, az, impact_point
    tel,          \* the caller's Telescope: mirror_center, pixel_tab, signal_hist
    cfg_profile,  \* the profile the caller has selected
    cfg_args,     \* the parameters the caller passes to that profile
    cfg_input,    \* the angles or distances the caller evaluates directly
    call,         \* the call made last: function, arguments, draws, result
    prev,         \* an earlier call of mask_transmitted_particles
    drawn         \* how many values the random source has handed out so far

vars == <<shower, tel, cfg_profile, cfg_args, cfg_input, call, prev, drawn>>

Abs(x) == IF x < 0 THEN -x ELSE x

Sign(x) == IF x > 0 THEN 1 ELSE IF x < 0 THEN -1 ELSE 0

RECURSIVE GCD(_, _)
GCD(a, b) == IF b = 0 THEN Abs(a) ELSE GCD(b, a % b)

\* The float num/den * e^(en/ed), in lowest terms.
Num(n, d, xn, xd) ==
    IF d = 0 THEN [num |-> Sign(n), den |-> 0, en |-> 0, ed |-> 1]
    ELSE IF n = 0 THEN [num |-> 0, den |-> 1, en |-> 0, ed |-> 1]
    ELSE LET g == GCD(Abs(n), Abs(d))
             h == GCD(Abs(xn), Abs(xd))
         IN  [num |-> (Sign(d) * n) \div g, den |-> Abs(d) \div g,
              en |-> (Sign(xd) * xn) \div h, ed |-> Abs(xd) \div h]

Rat(n, d) == Num(n, d, 0, 1)

Zero == Rat(0, 1)

One == Rat(1, 1)

NaN == Rat(0, 0)

Inf == Rat(1, 0)

IsNaN(a) == a.den = 0 /\ a.num = 0

IsFinite(a) == a.den # 0

IsRational(a) == a.den # 0 /\ a.en = 0

\* float * float
MulNum(a, b) ==
    Num(a.num * b.num, a.den * b.den,
        a.en * b.ed + b.en * a.ed, a.ed * b.ed)

\* float / float as numpy divides: x/0 is inf or nan, never an exception.
DivNum(a, b) ==
    Num(a.num * b.den, a.den * b.num,
        a.en * b.ed - b.en * a.ed, a.ed * b.ed)

\* float + float.  Two finite non-zero terms are added only when they carry
\* the same power of e; no profile adds any other pair.
AddNum(a, b) ==
    CASE a.den = 0 \/ b.den = 0 ->
            Num(a.num * b.den + b.num * a.den, 0, 0, 1)
      [] a.den # 0 /\ b.den # 0 /\ a.num = 0 -> b
      [] a.den # 0 /\ b.den # 0 /\ a.num # 0 /\ b.num = 0 -> a
      [] a.den # 0 /\ b.den # 0 /\ a.num # 0 /\ b.num # 0
           /\ a.en = b.en /\ a.ed = b.ed ->
            Num(a.num * b.den + b.num * a.den, a.den * b.den, a.en, a.ed)

NegNum(a) == [a EXCEPT !.num = -a.num]

SubNum(a, b) == AddNum(a, NegNum(b))

RECURSIVE PowNum(_, _)
\* float ** k for a natural k
PowNum(a, k) == IF k = 0 THEN One ELSE MulNum(a, PowNum(a, k - 1))

\* np.exp of a rational: e^x, kept exact.
ExpNum(x) ==
    IF x.den = 0
    THEN (IF x.num = 1 THEN Inf ELSE IF x.num = -1 THEN Zero ELSE NaN)
    ELSE [num |-> 1, den |-> 1,
          en |-> IF x.num = 0 THEN 0 ELSE x.num,
          ed |-> IF x.num = 0 THEN 1 ELSE x.den]

RECURSIVE ExpMilli(_)
\* e^k in thousandths, rounded down, for an integer k (e = 2.718...).
ExpMilli(k) ==
    IF k = 0 THEN 1000
    ELSE IF k > 0 THEN (ExpMilli(k - 1) * 2718) \div 1000
    ELSE (ExpMilli(k + 1) * 1000) \div 2718

\* a < b on floats.  Any comparison with nan is false.  A power of e is
\* compared through its value in thousandths (integer exponents only).
LtNum(a, b) ==
    CASE IsNaN(a) \/ IsNaN(b) -> FALSE
      [] ~(IsNaN(a) \/ IsNaN(b)) /\ a.en = 0 /\ b.en = 0 ->
            a.num * b.den < b.num * a.den
      [] ~(IsNaN(a) \/ IsNaN(b)) /\ (a.en # 0 \/ b.en # 0)
           /\ a.ed = 1 /\ b.ed = 1 ->
            a.num * ExpMilli(a.en) * b.den < b.num * ExpMilli(b.en) * a.den

GtNum(a, b) == LtNum(b, a)

LeNum(a, b) == ~IsNaN(a) /\ ~IsNaN(b) /\ ~LtNum(b, a)

GeNum(a, b) == LeNum(b, a)

\* A Python/numpy bool as the number it is in arithmetic.
Bool(p) == IF p THEN One ELSE Zero


(***************************************************************************)
(* Objects.  What a Python expression evaluates to: a Python float         *)
(* ("scalar", one number), a numpy array ("array", a sequence of numbers)  *)
(* or a raised exception ("error").                                        *)
(***************************************************************************)
Scalar(v) == [shape |-> "scalar", data |-> <<v>>, err |-> ""]

Array(s) == [shape |-> "array", data |-> s, err |-> ""]

Raise(e) == [shape |-> "error", data |-> <<>>, err |-> e]

\* len(x)
Length(x) == Len(x.data)

\* One binary operation on two numbers; a comparison gives a bool.
BinOp(op, a, b) ==
    CASE op = "*" -> MulNum(a, b)
      [] op = "/" -> DivNum(a, b)
      [] op = "+" -> AddNum(a, b)
      [] op = "-" -> SubNum(a, b)
      [] op = "<=" -> Bool(LeNum(a, b))
      [] op = "<" -> Bool(LtNum(a, b))
      [] op = ">" -> Bool(GtNum(a, b))
      [] op = ">=" -> Bool(GeNum(a, b))

\* numpy broadcasting of a binary operation: a scalar operand is used for every
\* element of an array operand, two arrays must have one length (ValueError
\* otherwise), and an exception in an operand propagates.
Broadcast(op, a, b) ==
    IF a.shape = "error" THEN a
    ELSE IF b.shape = "error" THEN b
    ELSE IF a.shape = "array" /\ b.shape = "array" /\ Len(a.data) # Len(b.data)
    THEN Raise("ValueError")
    ELSE LET n == IF a.shape = "array" THEN Len(a.data)
                  ELSE IF b.shape = "array" THEN Len(b.data) ELSE 1
             el(v, i) == IF v.shape = "array" THEN v.data[i] ELSE v.data[1]
         IN  [shape |-> IF a.shape = "array" \/ b.shape = "array"
                        THEN "array" ELSE "scalar",
              data |-> [i \in 1..n |-> BinOp(op, el(a, i), el(b, i))],
              err |-> ""]

\* a * b
Mul(a, b) == Broadcast("*", a, b)

\* a + b
Add(a, b) == Broadcast("+", a, b)

\* a - b
Sub(a, b) == Broadcast("-", a, b)

\* a <= b, a < b, a > b, a >= b
Le(a, b) == Broadcast("<=", a, b)

Lt(a, b) == Broadcast("<", a, b)

Gt(a, b) == Broadcast(">", a, b)

Ge(a, b) == Broadcast(">=", a, b)

\* a / b: between two Python floats a zero divisor raises ZeroDivisionError;
\* with a numpy array on either side it gives inf or nan.
Div(a, b) ==
    IF a.shape = "scalar" /\ b.shape = "scalar" /\ b.data[1].num = 0
          /\ b.data[1].den # 0
    THEN Raise("ZeroDivisionError")
    ELSE Broadcast("/", a, b)

\* a ** k
Pow(a, k) ==
    IF a.shape = "error" THEN a
    ELSE [a EXCEPT !.data = [i \in 1..Len(a.data) |-> PowNum(a.data[i], k)]]

\* -a
Neg(a) ==
    IF a.shape = "error" THEN a
    ELSE [a EXCEPT !.data = [i \in 1..Len(a.data) |-> NegNum(a.data[i])]]

\* np.exp(a)
Exp(a) ==
    IF a.shape = "error" THEN a
    ELSE [a EXCEPT !.data = [i \in 1..Len(a.data) |-> ExpNum(a.data[i])]]

(***************************************************************************)
(* emission.py                                                             *)
(***************************************************************************)
\* transmission with np.zeros for np.ones
transmission_zeros(distances) ==
    IF distances.shape = "error" THEN distances
    ELSE IF distances.shape = "scalar" THEN Raise("TypeError")
    ELSE Array([i \in 1..Length(distances) |-> Zero])

\* np.ones(len(distances)); len() of a Python float raises TypeError
transmission(distances) ==
    IF distances.shape = "error" THEN distances
    ELSE IF distances.shape = "scalar" THEN Raise("TypeError")
    ELSE Array([i \in 1..Length(distances) |-> One])

\* return 1
constant_profile(dist) == Scalar(One)

\* return 1./(1. + dist)**2
power_law_profile(dist, alpha) ==
    Div(Scalar(One), Pow(Add(Scalar(One), dist), 2))

\* ground_profile_heaviside with the boundary left out of the lower branch:
\* (dist<shift) * 1. + (dist>=shift) * 0.
ground_profile_heaviside_exclusive(dist, shift) ==
    Add(Mul(Lt(dist, Scalar(shift)), Scalar(One)),
        Mul(Ge(dist, Scalar(shift)), Scalar(Zero)))

\* return (dist<=shift) * 1. + (dist>shift) * 0.
ground_profile_heaviside(dist, shift) ==
    Add(Mul(Le(dist, Scalar(shift)), Scalar(One)),
        Mul(Gt(dist, Scalar(shift)), Scalar(Zero)))

\* return (dist<=shift) * 1. + (dist>shift) * 1./(dist - shift)
ground_profile_1(dist, shift) ==
    Add(Mul(Le(dist, Scalar(shift)), Scalar(One)),
        Div(Mul(Gt(dist, Scalar(shift)), Scalar(One)),
            Sub(dist, Scalar(shift))))

\* return 1 * (angles <= limit)
angular_profile_heaviside(angles, limit) ==
    Mul(Scalar(One), Le(angles, Scalar(limit)))

\* a[::-1]
Reversed(a) ==
    IF a.shape = "error" THEN a
    ELSE [a EXCEPT !.data = [i \in 1..Len(a.data) |->
                                a.data[Len(a.data) + 1 - i]]]

\* angular_profile_exp_falloff giving its values in the reverse order
angular_profile_exp_falloff_reversed(angles, break_angle, alpha) ==
    Reversed(Add(Mul(Scalar(One), Lt(angles, Scalar(break_angle))),
        Mul(Exp(Mul(Neg(Scalar(alpha)), Sub(angles, Scalar(break_angle)))),
            Ge(angles, Scalar(break_angle)))))

\* return 1 * (angles < break_angle)
\*        + np.exp(-alpha*(angles - break_angle)) * (angles >= break_angle)
angular_profile_exp_falloff(angles, break_angle, alpha) ==
    Add(Mul(Scalar(One), Lt(angles, Scalar(break_angle))),
        Mul(Exp(Mul(Neg(Scalar(alpha)), Sub(angles, Scalar(break_angle)))),
            Ge(angles, Scalar(break_angle))))

\* The defaults of the keyword parameters.
DefaultAlpha == 2

GroundHeavisideShift == 120

GroundProfile1Shift == 120

Profiles ==
    {"constant_profile", "power_law_profile", "ground_profile_heaviside",
     "ground_profile_1", "angular_profile_heaviside",
     "angular_profile_exp_falloff"}

\* The numbers of positional arguments each profile takes after its first.
Arity(profile) ==
    CASE profile = "constant_profile" -> {0}
      [] profile = "power_law_profile" -> {0, 1}
      [] profile = "ground_profile_heaviside" -> {0, 1}
      [] profile = "ground_profile_1" -> {0, 1}
      [] profile = "angular_profile_heaviside" -> {1}
      [] profile = "angular_profile_exp_falloff" -> {2}

\* profile(x, *args): Python binds the arguments, fills in the defaults and
\* raises TypeError when their number does not fit the signature.
Apply(profile, x, args) ==
    IF Len(args) \notin Arity(profile) THEN Raise("TypeError")
    ELSE CASE profile = "constant_profile" -> constant_profile(x)
           [] profile = "power_law_profile" ->
                power_law_profile(x, IF Len(args) = 0
                                     THEN Rat(DefaultAlpha, 1) ELSE args[1])
           [] profile = "ground_profile_heaviside" ->
                ground_profile_heaviside(x, IF Len(args) = 0
                                     THEN Rat(GroundHeavisideShift, 1)
                                     ELSE args[1])
           [] profile = "ground_profile_1" ->
                ground_profile_1(x, IF Len(args) = 0
                                     THEN Rat(GroundProfile1Shift, 1)
                                     ELSE args[1])
           [] profile = "angular_profile_heaviside" ->
                angular_profile_heaviside(x, args[1])
           [] profile = "angular_profile_exp_falloff" ->
                angular_profile_exp_falloff(x, args[1], args[2])

(***************************************************************************)
(* The geometry provider: the three operations emission.py imports from    *)
(* the package's geometry module.  Points are integer triples, angles are  *)
(* counted in eighths of a turn and distances in whole length units        *)
(* (rounded down).                                                         *)
(***************************************************************************)
VecSub(a, b) == <<a[1] - b[1], a[2] - b[2], a[3] - b[3]>>

Dot(a, b) == a[1] * b[1] + a[2] * b[2] + a[3] * b[3]

ISqrt(n) == CHOOSE r \in 0..n : r * r <= n /\ n < (r + 1) * (r + 1)

\* cos and sin of k eighths of a turn, k even
Cos8(k) == CASE k % 8 = 0 -> 1 [] k % 8 = 4 -> -1 [] k % 8 \in {2, 6} -> 0

Sin8(k) == CASE k % 8 = 2 -> 1 [] k % 8 = 6 -> -1 [] k % 8 \in {0, 4} -> 0

\* geo.altaz_to_normal(alt, az): the unit vector of the pointing direction
altaz_to_normal(alt, az) ==
    <<Cos8(alt) * Cos8(az), Cos8(alt) * Sin8(az), Sin8(alt)>>

\* geo.angle(a, b): the angle between two vectors, in 0..4 eighths of a turn;
\* undefined (nan) when one of them is the null vector.
angle(a, b) ==
    LET d == Dot(a, b)
        n == Dot(a, a) * Dot(b, b)
    IN  CASE n = 0 -> NaN
          [] n # 0 /\ d * d = n -> Rat(IF d > 0 THEN 0 ELSE 4, 1)
          [] n # 0 /\ 2 * d * d = n -> Rat(IF d > 0 THEN 1 ELSE 3, 1)
          [] n # 0 /\ d = 0 -> Rat(2, 1)

\* geo.distance_shower_camera_center(shower, tel): one distance per particle,
\* in the order of shower.particles
distance_shower_camera_center(sh, t) ==
    Array([i \in 1..Len(sh.particles) |->
             LET v == VecSub(sh.particles[i], t.mirror_center)
             IN  Rat(ISqrt(Dot(v, v)), 1)])

(***************************************************************************)
(* mask_transmitted_particles.  draws is what np.random.rand(n) returns.   *)
(***************************************************************************)
\* ParticleAngles walking the particles from the last to the first
ParticleAnglesBackwards(t, sh) ==
    LET shower_direction == altaz_to_normal(sh.alt, sh.az)
    IN  Array([i \in 1..Len(sh.particles) |->
                 angle(shower_direction,
                       VecSub(sh.particles[Len(sh.particles) + 1 - i],
                              t.mirror_center))])

\* angles = np.array([geo.angle(shower_direction, particle - tel.mirror_center)
\*                    for particle in shower.particles])
ParticleAngles(t, sh) ==
    LET shower_direction == altaz_to_normal(sh.alt, sh.az)
    IN  Array([i \in 1..Len(sh.particles) |->
                 angle(shower_direction,
                       VecSub(sh.particles[i], t.mirror_center))])

\* particle_distances = geo.distance_shower_camera_center(shower, tel)
\* transmissions = transmission(particle_distances)
\* p_trans = transmissions * angular_profile(angles, *args)
TransmissionProbability(t, sh, angular_profile, args) ==
    Mul(transmission(distance_shower_camera_center(sh, t)),
        Apply(angular_profile, ParticleAngles(t, sh), args))

\* SampleMask accepting a tie: p_trans >= np.random.rand(...)
SampleMaskInclusive(p_trans, draws) == Ge(p_trans, Array(draws))

\* SampleMask comparing against the values drawn for the masking call before,
\* kept from one call to the next
SampleMaskStaleDraws(p_trans, draws) ==
    Gt(p_trans,
       Array(IF call.fn = "mask_transmitted_particles"
                  /\ Len(call.draws) = Len(draws)
             THEN call.draws ELSE draws))

\* p_trans > np.random.rand(len(shower.particles)), draws being the values
\* np.random.rand returns
SampleMask(p_trans, draws) == Gt(p_trans, Array(draws))

\* The whole function, given the values the random source will hand out.
mask_transmitted_particles(t, sh, angular_profile, args, draws) ==
    SampleMask(TransmissionProbability(t, sh, angular_profile, args), draws)

(***************************************************************************)
(* Bounds and the inputs the calls are made with.                          *)
(***************************************************************************)
MaxParticles == 2

MaxLen == 2

DrawDen == 2

MaxDrawn == 4

SeqsUpTo(S, n) == UNION {[1..k -> S] : k \in 0..n}

\* Positions of particles and the telescope's mirror.
Points == {<<1, 0, 2>>, <<2, 0, 1>>, <<3, 0, 0>>}

Showers ==
    {[particles |-> ps, alt |-> d[1], az |-> d[2], impact_point |-> <<1, 0, 0>>] :
        ps \in SeqsUpTo(Points, MaxParticles) \ {<<>>},
        d \in {<<2, 0>>, <<0, 0>>}}

Telescopes ==
    {[mirror_center |-> <<1, 0, 0>>,
      pixel_tab |-> <<<<0, 0>>, <<1, 0>>>>,
      signal_hist |-> <<0, 0>>]}

\* The values of the random source: k/DrawDen in [0, 1).
Draws == {Rat(k, DrawDen) : k \in 0..(DrawDen - 1)}

\* Profile parameters a masking call is made with.
MaskArgs == SeqsUpTo({Rat(0, 1), Rat(1, 1)}, 2)

\* Inputs and parameters of the direct calls of the profiles.
InputVals ==
    {Rat(0, 1), Rat(1, 2), Rat(1, 1), Rat(3, 2),
     Rat(119, 1), Rat(120, 1), Rat(241, 2), Rat(121, 1)}

ProfileInputs ==
    {Scalar(v) : v \in InputVals} \cup
    {Array(s) : s \in SeqsUpTo(InputVals, MaxLen)}

ProfileArgs == SeqsUpTo({Rat(-1, 1), Rat(0, 1), Rat(1, 1), Rat(3, 1)}, 2)

(***************************************************************************)
(* The state machine: a caller that owns one shower and one telescope, has *)
(* selected one profile with its parameters, and calls the functions of    *)
(* emission.py in any order.                                               *)
(***************************************************************************)
Call(fn, profile, x, args, draws, out) ==
    [fn |-> fn, profile |-> profile, x |-> x, args |-> args,
     draws |-> draws, out |-> out]

NoCall == Call("none", "", Array(<<>>), <<>>, <<>>, Array(<<>>))

\* A caller running the masking engine on its shower.
Init ==
    /\ shower \in Showers
    /\ tel \in Telescopes
    /\ cfg_profile \in Profiles
    /\ cfg_args \in MaskArgs
    /\ cfg_input = distance_shower_camera_center(shower, tel)
    /\ call = NoCall
    /\ prev = NoCall
    /\ drawn = 0

\* A caller evaluating the profiles and the transmission model on their own.
InitProfiles ==
    /\ shower = [particles |-> <<<<1, 0, 2>>>>, alt |-> 2, az |-> 0,
                 impact_point |-> <<1, 0, 0>>]
    /\ tel \in Telescopes
    /\ cfg_profile \in Profiles
    /\ cfg_args \in ProfileArgs
    /\ cfg_input \in ProfileInputs
    /\ call = NoCall
    /\ prev = NoCall
    /\ drawn = 0

\* prev keeps one of the masking calls made before the call made now.
Remember ==
    prev' \in {prev} \cup
              (IF call.fn = "mask_transmitted_particles" THEN {call} ELSE {})

\* transmission(distances)
CallTransmission ==
    /\ call' = Call("transmission", "", cfg_input, <<>>, <<>>,
                    transmission(cfg_input))
    /\ Remember
    /\ UNCHANGED <<shower, tel, cfg_profile, cfg_args, cfg_input, drawn>>

\* profile(x, *args), called directly
CallProfile ==
    /\ call' = Call("profile", cfg_profile, cfg_input, cfg_args, <<>>,
                    Apply(cfg_profile, cfg_input, cfg_args))
    /\ Remember
    /\ UNCHANGED <<shower, tel, cfg_profile, cfg_args, cfg_input, drawn>>

\* MaskStep adding the accepted particles to the telescope's signal_hist
MaskStepAccumulating(p_trans) ==
    /\ drawn + Len(shower.particles) <= MaxDrawn
    /\ \E draws \in (IF p_trans.shape = "error" THEN {<<>>}
                     ELSE [1..Len(shower.particles) -> Draws]) :
         /\ call' = Call("mask_transmitted_particles", cfg_profile,
                         Array(<<>>), cfg_args, draws,
                         IF p_trans.shape = "error" THEN p_trans
                         ELSE SampleMask(p_trans, draws))
         /\ drawn' = drawn + Len(draws)
         /\ tel' = [tel EXCEPT !.signal_hist[1] = @ + Len(draws)]
    /\ Remember
    /\ UNCHANGED <<shower, cfg_profile, cfg_args, cfg_input>>

\* The rest of a masking call once p_trans is computed: when the profile
\* raised, the exception leaves the function before the random source is
\* read; otherwise len(shower.particles) values are drawn and compared.
MaskStep(p_trans) ==
    /\ drawn + Len(shower.particles) <= MaxDrawn
    /\ \E draws \in (IF p_trans.shape = "error" THEN {<<>>}
                     ELSE [1..Len(shower.particles) -> Draws]) :
         /\ call' = Call("mask_transmitted_particles", cfg_profile,
                         Array(<<>>), cfg_args, draws,
                         IF p_trans.shape = "error" THEN p_trans
                         ELSE SampleMask(p_trans, draws))
         /\ drawn' = drawn + Len(draws)
    /\ Remember
    /\ UNCHANGED <<shower, tel, cfg_profile, cfg_args, cfg_input>>

\* mask_transmitted_particles(tel, shower, angular_profile, *args)
CallMask ==
    MaskStep(TransmissionProbability(tel, shower, cfg_profile, cfg_args))

Next ==
    \/ CallTransmission
    \/ CallProfile
    \/ CallMask

Spec == Init /\ [][Next]_vars

NextProfiles ==
    \/ CallTransmission
    \/ CallProfile

SpecProfiles == InitProfiles /\ [][NextProfiles]_vars

(***************************************************************************)
(* Properties of the profile functions, stated for SpecProfiles.           *)
(***************************************************************************)
\* The call made last is a direct call of this profile that Python accepted.
ProfileCalled(profile) ==
    /\ call.fn = "profile"
    /\ call.profile = profile
    /\ Len(call.args) \in Arity(profile)

\* Element i of a result, a scalar standing for each of its elements.
Elem(v, i) == IF v.shape = "array" THEN v.data[i] ELSE v.data[1]

\* Comparisons of rationals, by cross-multiplication.
RatLe(a, b) == a.num * b.den <= b.num * a.den

RatLt(a, b) == a.num * b.den < b.num * a.den

\* a ** k for an integer k
PowInt(a, k) == IF k >= 0 THEN PowNum(a, k) ELSE DivNum(One, PowNum(a, -k))

\* The parameter a call was made with, or the default when it passed none.
ParamOr(default) == IF Len(call.args) = 0 THEN Rat(default, 1) ELSE call.args[1]

\* C2: power_law_profile returns 1 / (1 + angle)^alpha for the alpha the
\* caller supplies, and uses alpha = 2 only when no alpha is given.
PowerLawUsesAlpha ==
    ProfileCalled("power_law_profile") =>
        /\ call.out.shape = call.x.shape
        /\ \A i \in 1..Length(call.x) :
              call.out.data[i] =
                  DivNum(One, PowInt(AddNum(One, call.x.data[i]),
                                     ParamOr(2).num))

\* C3: ground_profile_1 returns exactly 1 for every input <= shift, the input
\* equal to shift included, and 1/(input - shift) for every input > shift; no
\* input yields an error or an undefined value.
GroundFalloffDefinedEverywhere ==
    ProfileCalled("ground_profile_1") =>
        /\ call.out.shape = call.x.shape
        /\ \A i \in 1..Length(call.x) :
              call.out.data[i] =
                  IF RatLe(call.x.data[i], ParamOr(120)) THEN One
                  ELSE DivNum(One, SubNum(call.x.data[i], ParamOr(120)))

\* What the profile of the last call gives for the one angle call.x[i].
AloneAt(i) ==
    Elem(Apply(call.profile, Array(<<call.x.data[i]>>), call.args), 1)

\* C4 as stated: for every profile variant and every input sequence of n
\* angles, the profile returns a sequence of exactly n values in the order of
\* the input.
ProfileKeepsLengthAndOrder ==
    \A profile \in Profiles :
        ProfileCalled(profile) /\ call.x.shape = "array" =>
            /\ call.out.shape = "array"
            /\ Length(call.out) = Length(call.x)
            /\ \A i \in 1..Length(call.x) : call.out.data[i] = AloneAt(i)

\* C4 as amended: every profile variant but the constant one returns, for an
\* input sequence of n angles, a sequence of exactly n values in the order of
\* the input; the constant profile returns the single number 1 whatever the
\* input.
ProfileKeepsLengthAndOrderUnlessConstant ==
    /\ \A profile \in Profiles \ {"constant_profile"} :
          ProfileCalled(profile) /\ call.x.shape = "array" =>
              /\ call.out.shape = "array"
              /\ Length(call.out) = Length(call.x)
              /\ \A i \in 1..Length(call.x) : call.out.data[i] = AloneAt(i)
    /\ ProfileCalled("constant_profile") => call.out = Scalar(One)

\* C4's case: a profile was given two angles and gave back two different
\* values.
ProfileOnTwoAnglesWitness ==
    /\ ProfileCalled("angular_profile_exp_falloff")
    /\ call.x.shape = "array"
    /\ Length(call.x) = 2
    /\ Length(call.out) = 2
    /\ call.out.data[1] # call.out.data[2]

\* C6: ground_profile_heaviside and angular_profile_heaviside return 1 for
\* every input <= the threshold (shift or limit), the input equal to it
\* included, and 0 for every input above; ground_profile_heaviside uses
\* shift = 120 when none is given.
HeavisideInclusive ==
    /\ ProfileCalled("ground_profile_heaviside") =>
          /\ call.out.shape = call.x.shape
          /\ \A i \in 1..Length(call.x) :
                call.out.data[i] =
                    IF RatLe(call.x.data[i], ParamOr(120)) THEN One ELSE Zero
    /\ ProfileCalled("angular_profile_heaviside") =>
          /\ call.out.shape = call.x.shape
          /\ \A i \in 1..Length(call.x) :
                call.out.data[i] =
                    IF RatLe(call.x.data[i], call.args[1]) THEN One ELSE Zero

\* C6's case: ground_profile_heaviside, called without a shift, was given 120
\* and an input above 120, and answered 1 and 0.
HeavisideAtThresholdWitness ==
    /\ ProfileCalled("ground_profile_heaviside")
    /\ call.args = <<>>
    /\ call.x = Array(<<Rat(120, 1), Rat(241, 2)>>)
    /\ call.out = Array(<<One, Zero>>)

\* A value in [0, 1]; a power of e is e^(en/ed) itself.
InUnitInterval(v) ==
    IF v.en = 0 THEN v.den # 0 /\ 0 <= v.num /\ v.num <= v.den
    ELSE v.num = 1 /\ v.den = 1 /\ v.en < 0

\* A finite value above 1.
AboveOne(v) ==
    IF v.en = 0 THEN v.den # 0 /\ v.num > v.den
    ELSE v.num = 1 /\ v.den = 1 /\ v.en > 0

\* C7: for every non-negative input every profile returns a value in [0, 1],
\* but for ground_profile_1, whose value is above 1 exactly when
\* shift < input < shift + 1.  (Read for the decay exponents the exponential
\* profile assumes, alpha >= 0.)
ProfilesInUnitInterval ==
    \A profile \in Profiles :
        /\ ProfileCalled(profile)
        /\ call.out.shape # "error"
        /\ profile = "angular_profile_exp_falloff" => call.args[2].num >= 0
        => \A i \in 1..Length(call.x) :
              IF /\ profile = "ground_profile_1"
                 /\ RatLt(ParamOr(120), call.x.data[i])
                 /\ RatLt(call.x.data[i], AddNum(ParamOr(120), One))
              THEN AboveOne(Elem(call.out, i))
              ELSE InUnitInterval(Elem(call.out, i))

(***************************************************************************)
(* Properties of mask_transmitted_particles, stated for Spec.              *)
(***************************************************************************)
MaskCalled == call.fn = "mask_transmitted_particles"

\* The last call is a masking call that returned a mask.
MaskReturned == MaskCalled /\ call.out.shape = "array"

NParticles == Len(shower.particles)

\* C1: mask bit i is true if and only if transmission(distances)[i] times
\* angular_profile(angles)[i] is strictly greater than the i-th drawn value; a
\* particle whose combined probability equals its draw is rejected.
MaskIffProbabilityExceedsDraw ==
    MaskReturned =>
        \A i \in 1..NParticles :
            /\ call.out.data[i] \in {Zero, One}
            /\ call.out.data[i] = One <=>
                  GtNum(MulNum(
                          Elem(transmission(
                                 distance_shower_camera_center(shower, tel)), i),
                          Elem(Apply(call.profile, ParticleAngles(tel, shower),
                                     call.args), i)),
                        call.draws[i])

\* C1's case: one particle is accepted, and another, whose combined
\* probability is positive and equal to its draw, is rejected.
MaskTieRejectedWitness ==
    /\ MaskReturned
    /\ \E i, j \in 1..NParticles :
          /\ call.out.data[i] = One
          /\ call.out.data[j] = Zero
          /\ call.draws[j] # Zero
          /\ Elem(TransmissionProbability(tel, shower, call.profile,
                                          call.args), j) = call.draws[j]

\* The caller's shower reduced to its i-th particle.
OnlyParticle(i) == [shower EXCEPT !.particles = <<shower.particles[i]>>]

\* C5: for any non-empty particle population and any profile variant the mask
\* has exactly len(shower.particles) entries, entry i being the decision for
\* shower.particles[i].
MaskAlignedWithParticles ==
    /\ MaskCalled /\ Len(call.args) \in Arity(call.profile) => MaskReturned
    /\ MaskReturned =>
          /\ Length(call.out) = NParticles
          /\ \A i \in 1..NParticles :
                call.out.data[i] =
                    mask_transmitted_particles(tel, OnlyParticle(i),
                        call.profile, call.args, <<call.draws[i]>>).data[1]

\* C5's case: a mask for two particles at different angles, one accepted and
\* one rejected on the same draw.
MaskOfTwoParticlesWitness ==
    /\ MaskReturned
    /\ NParticles = 2
    /\ call.draws[1] = call.draws[2]
    /\ call.out.data[1] # call.out.data[2]

\* C8: two calls of mask_transmitted_particles with the same telescope,
\* shower, profile, profile arguments and drawn values return the same mask,
\* whatever calls were made before them.
MaskReplayable ==
    /\ MaskCalled
    /\ prev.fn = "mask_transmitted_particles"
    /\ call.profile = prev.profile
    /\ call.args = prev.args
    /\ call.draws = prev.draws
    => call.out = prev.out

\* C8's case: a mask is returned a second time for the same draws, after a
\* call with other draws was made.
MaskReplayedWitness ==
    /\ MaskReturned
    /\ prev.fn = "mask_transmitted_particles"
    /\ call.draws = prev.draws
    /\ drawn > 2 * NParticles
    /\ \E i \in 1..NParticles : call.out.data[i] = One /\ call.draws[i] # Zero

\* C9: no call changes the shower's particles, alt, az and impact_point or the
\* telescope's mirror_center, pixel_tab and signal_hist; the only thing a
\* masking call consumes is values of the random source, and no other call
\* consumes any.
CallsLeaveShowerAndTelescope ==
    [][/\ shower' = shower
       /\ tel' = tel
       /\ drawn' # drawn =>
             /\ call'.fn = "mask_transmitted_particles"
             /\ drawn' = drawn + NParticles]_vars

\* C9's case: a masking call that drew values, then a direct call, have been
\* made.
CallsOfEveryKindWitness ==
    /\ call.fn \in {"transmission", "profile"}
    /\ prev.fn = "mask_transmitted_particles"
    /\ prev.out.shape = "array"
    /\ drawn > 0

\* C10: with the constant profile and the default transmission, which returns
\* 1.0 for every distance with the length of its input, every particle's
\* combined probability is 1 and the mask is all-true for every sequence of
\* draws taken from [0, 1).
ConstantProfileAcceptsAll ==
    /\ call.fn = "transmission" /\ call.x.shape = "array" =>
          call.out = Array([i \in 1..Length(call.x) |-> One])
    /\ MaskCalled /\ call.profile = "constant_profile" /\ call.args = <<>> =>
          /\ TransmissionProbability(tel, shower, call.profile, call.args)
                = Array([i \in 1..NParticles |-> One])
          /\ call.out = Array([i \in 1..NParticles |-> One])

\* C10's case: the constant profile masked two particles whose draws were
\* not all 0.
ConstantProfileWitness ==
    /\ MaskReturned
    /\ call.profile = "constant_profile"
    /\ NParticles = 2
    /\ \E i \in 1..NParticles : call.draws[i] # Zero
    /\ call.out = Array(<<One, One>>)

=============================================================================
